---- MODULE Spec2Model ----
(***************************************************************************)
(* qst: a minimal static-content HTTP server.                              *)
(*                                                                         *)
(* Strings are sequences of one-character strings, so that the string      *)
(* functions of http.rs (tokenising, searching, replacing, rendering) are  *)
(* computed character by character.  Option<T> is a set with at most one   *)
(* element: None is {} and Some(x) is {x}.  Result<T, E> and IoResult<T>   *)
(* are records with a boolean field ok.                                    *)
(***************************************************************************)
EXTENDS Integers, Sequences, FiniteSets, TLC

None == {}

Some(x) == {x}

unwrap(opt) == CHOOSE x \in opt : TRUE

IoOk(v) == [ok |-> TRUE, v |-> v]

IoErr == [ok |-> FALSE, v |-> <<>>]

(***************************************************************************)
(* String primitives of the standard library used by http.rs and lib.rs.   *)
(***************************************************************************)
AsciiWhitespace == {" ", "\t", "\n", "\f", "\r"}

Drop(s, n) == SubSeq(s, n + 1, Len(s))

starts_with(s, pat) ==
    /\ Len(pat) <= Len(s)
    /\ SubSeq(s, 1, Len(pat)) = pat

ends_with(s, pat) ==
    /\ Len(pat) <= Len(s)
    /\ SubSeq(s, Len(s) - Len(pat) + 1, Len(s)) = pat

\* str::find(pat).is_some(): pat occurs somewhere in s.
find(s, pat) ==
    \E i \in 1..(Len(s) - Len(pat) + 1) : SubSeq(s, i, i + Len(pat) - 1) = pat

\* str::replace: every non-overlapping occurrence, scanning left to right.
RECURSIVE replace(_, _, _)
replace(s, from, to) ==
    IF s = <<>> THEN <<>>
    ELSE IF starts_with(s, from) THEN to \o replace(Drop(s, Len(from)), from, to)
    ELSE <<Head(s)>> \o replace(Tail(s), from, to)

\* The first token of s and what follows it, leading whitespace skipped.
RECURSIVE TakeToken(_, _)
TakeToken(s, acc) ==
    IF s = <<>> \/ Head(s) \in AsciiWhitespace THEN <<acc, s>>
    ELSE TakeToken(Tail(s), Append(acc, Head(s)))

\* str::split_ascii_whitespace, collected: the non-empty maximal runs of
\* non-whitespace characters, in order.
\* A tokeniser that splits at the space character only.
RECURSIVE split_at_spaces(_)
split_at_spaces(s) ==
    IF s = <<>> THEN <<>>
    ELSE IF Head(s) = " " THEN split_at_spaces(Tail(s))
    ELSE LET n == IF \E i \in 1..Len(s) : s[i] = " "
                  THEN (CHOOSE i \in 1..Len(s) :
                            s[i] = " " /\ \A j \in 1..(i - 1) : s[j] # " ") - 1
                  ELSE Len(s)
         IN  <<SubSeq(s, 1, n)>> \o split_at_spaces(Drop(s, n))

RECURSIVE split_ascii_whitespace(_)
split_ascii_whitespace(s) ==
    IF s = <<>> THEN <<>>
    ELSE IF Head(s) \in AsciiWhitespace THEN split_ascii_whitespace(Tail(s))
    ELSE LET t == TakeToken(s, <<>>)
         IN  <<t[1]>> \o split_ascii_whitespace(t[2])

Digit(d) == <<"0", "1", "2", "3", "4", "5", "6", "7", "8", "9">>[d + 1]

\* Display for usize: decimal, no sign, no leading zeros.
RECURSIVE usize_to_string(_)
usize_to_string(n) ==
    IF n < 10 THEN <<Digit(n)>>
    ELSE Append(usize_to_string(n \div 10), Digit(n % 10))

(***************************************************************************)
(* http.rs: the message model.                                             *)
(***************************************************************************)
HttpMethod == {"GET", "HEAD"}

HttpResponseCode ==
    {"Continue100", "OK200", "BadRequest400", "Forbbiden403", "NotFound404",
     "MethodNotAllowed405", "ImATeapot418", "NotImplemented501",
     "HttpVersionNotSupported505"}

HttpResponseCode_to_string(code) ==
    CASE code = "Continue100" ->
           <<"1","0","0"," ","C","o","n","t","i","n","u","e">>
      [] code = "OK200" ->
           <<"2","0","0"," ","O","k">>
      [] code = "BadRequest400" ->
           <<"4","0","0"," ","B","a","d"," ","R","e","q","u","e","s","t">>
      [] code = "Forbbiden403" ->
           <<"4","0","3"," ","F","o","r","b","i","d","d","e","n">>
      [] code = "NotFound404" ->
           <<"4","0","4"," ","N","o","t"," ","F","o","u","n","d">>
      [] code = "MethodNotAllowed405" ->
           <<"4","0","5"," ","M","e","t","h","o","d"," ","N","o","t"," ","A","l","l","o","w","e","d">>
      [] code = "ImATeapot418" ->
           <<"4","1","8"," ","I","'","m"," ","A"," ","T","e","a","p","o","t">>
      [] code = "NotImplemented501" ->
           <<"5","0","1"," ","N","o","t"," ","I","m","p","l","e","m","e","n","t","e","d">>
      [] code = "HttpVersionNotSupported505" ->
           <<"5","0","5"," ","H","T","T","P"," ","V","e","r","s","i","o","n"," ","N","o","t"," ","S",
      "u","p","p","o","r","t","e","d">>

HttpResponse(code, content, content_length) ==
    [code |-> code, content |-> content, content_length |-> content_length]

\* A 400 that announces a length for a body it does not have.
bad_request_400_with_length == HttpResponse("BadRequest400", None, Some(0))

bad_request_400 == HttpResponse("BadRequest400", None, None)

\* A rendering that ends the Content-Length line with a single CRLF.
to_string_single_crlf(self) ==
    <<"H", "T", "T", "P", "/", "1", ".", "1", " ">>
    \o HttpResponseCode_to_string(self.code) \o <<"\r", "\n">>
    \o (IF self.content_length # None
        THEN <<"C","o","n","t","e","n","t","-","L","e","n","g","t","h",":"," ">>
             \o usize_to_string(unwrap(self.content_length)) \o <<"\r", "\n">>
        ELSE <<>>)
    \o (IF self.content # None THEN unwrap(self.content) \o <<"\r", "\n">> ELSE <<>>)
    \o <<"\r", "\n">>

HttpResponse_to_string(self) ==
    LET statusline == <<"H","T","T","P","/","1",".","1"," ">> \o HttpResponseCode_to_string(self.code) \o <<"\r", "\n">>
        length ==
            IF self.content_length # None
            THEN <<"C","o","n","t","e","n","t","-","L","e","n","g","t","h",":"," ">>
                 \o usize_to_string(unwrap(self.content_length)) \o <<"\r", "\n", "\r", "\n">>
            ELSE <<>>
        content ==
            IF self.content # None THEN unwrap(self.content) \o <<"\r", "\n">> ELSE <<>>
    IN  statusline \o length \o content \o <<"\r", "\n">>

(***************************************************************************)
(* http.rs: the request parser.  iter is the sequence of items the line    *)
(* iterator would yield, each IoOk(line) or IoErr.                         *)
(***************************************************************************)
ParseOk(method, fetch) == [ok |-> TRUE, method |-> method, fetch |-> fetch]

Rejected(response) == [ok |-> FALSE, response |-> response]

\* A parser that takes the last token of the line as the fetch.
parse_last_token(iter) ==
    IF iter # <<>> /\ Head(iter).ok
    THEN LET line_iter == split_ascii_whitespace(Head(iter).v)
         IN  IF Len(line_iter) >= 2
             THEN LET method == line_iter[1]
                      fetch == line_iter[Len(line_iter)]
                  IN  IF method = <<"G", "E", "T">> THEN ParseOk("GET", fetch)
                      ELSE IF method = <<"H", "E", "A", "D">> THEN ParseOk("HEAD", fetch)
                      ELSE Rejected(HttpResponse("NotImplemented501", None, None))
             ELSE Rejected(bad_request_400)
    ELSE Rejected(bad_request_400)

parse_from_lines_iterator(iter) ==
    IF iter # <<>> /\ Head(iter).ok
    THEN LET line_iter == split_ascii_whitespace(Head(iter).v)
         IN  IF Len(line_iter) >= 1
             THEN IF Len(line_iter) >= 2
                  THEN LET method == line_iter[1]
                           fetch == line_iter[2]
                       IN  IF method = <<"G", "E", "T">> THEN ParseOk("GET", fetch)
                           ELSE IF method = <<"H", "E", "A", "D">> THEN ParseOk("HEAD", fetch)
                           ELSE Rejected(HttpResponse("NotImplemented501", None, None))
                  ELSE Rejected(bad_request_400)
             ELSE Rejected(bad_request_400)
    ELSE Rejected(bad_request_400)

parse_tcp_stream(stream) == parse_from_lines_iterator(stream)

(***************************************************************************)
(* http.rs: the path resolver.                                             *)
(***************************************************************************)
TeapotContent ==
    <<"<","!","D","O","C","T","Y","P","E"," ","h","t","m","l",">","\n","<","h","t","m","l"," ",
      "l","a","n","g","=","\"","e","n","\"",">","\n"," "," "," "," ","<","h","e","a","d",">",
      "\n"," "," "," "," "," "," "," "," ","<","m","e","t","a"," ","c","h","a","r","s","e","t",
      "=","\"","u","t","f","-","8","\"",">","\n"," "," "," "," "," "," "," "," ","<","t","i",
      "t","l","e",">","Q","S","T"," ","T","e","a","p","o","t","s"," ","I","n","c",".","<","/",
      "t","i","t","l","e",">","\n"," "," "," "," ","<","/","h","e","a","d",">","\n","\n"," ",
      " "," "," ","<","b","o","d","y",">","\n"," "," "," "," "," "," "," "," ","<","h","1",">",
      "4","1","8"," ","-"," ","I","'","m"," ","a"," ","T","e","a","p","o","t","<","/","h","1",
      ">","\n"," "," "," "," "," "," "," "," ","<","p",">","\n"," "," "," "," "," "," "," "," ",
      "T","h","e"," ","s","e","r","v","e","r"," ","r","e","f","u","s","e","s"," ","t","o"," ",
      "b","r","e","w"," ","c","o","f","f","e","e"," ","b","e","c","a","u","s","e"," ","i","t",
      " ","i","s"," ","a"," ","t","e","a","p","o","t",".","\n"," "," "," "," "," "," "," "," ",
      "<","/","p",">","\n"," "," "," "," ","<","/","b","o","d","y",">","\n","<","/","h","t","m",
      "l",">","\n">>

FetchOk(path) == [ok |-> TRUE, path |-> path]

\* A resolver that tests for forbidden targets before it tests for "//coffee".
match_fetch_forbidden_first(self, default) ==
    IF self.fetch = <<"/">> THEN FetchOk(<<".", "/">> \o default)
    ELSE IF \/ find(self.fetch, <<"/", "/">>)
            \/ find(self.fetch, <<".", ".">>)
            \/ ends_with(self.fetch, <<"/">>)
    THEN Rejected(HttpResponse("Forbbiden403", None, None))
    ELSE IF self.fetch = <<"/", "/", "c", "o", "f", "f", "e", "e">>
    THEN Rejected(HttpResponse("ImATeapot418", Some(<<"t">>), Some(1)))
    ELSE LET fetch == replace(self.fetch, <<"%", "2", "0">>, <<" ">>)
         IN  IF starts_with(fetch, <<"/">>) THEN FetchOk(<<".">> \o fetch)
             ELSE FetchOk(<<".", "/">> \o fetch)

\* A resolver that lets ".." through.
match_fetch_allows_dotdot(self, default) ==
    IF self.fetch = <<"/">> THEN FetchOk(<<".", "/">> \o default)
    ELSE IF self.fetch = <<"/", "/", "c", "o", "f", "f", "e", "e">>
    THEN Rejected(HttpResponse("ImATeapot418", Some(<<"t">>), Some(1)))
    ELSE IF \/ find(self.fetch, <<"/", "/">>)
            \/ ends_with(self.fetch, <<"/">>)
    THEN Rejected(HttpResponse("Forbbiden403", None, None))
    ELSE LET fetch == replace(self.fetch, <<"%", "2", "0">>, <<" ">>)
         IN  IF starts_with(fetch, <<"/">>) THEN FetchOk(<<".">> \o fetch)
             ELSE FetchOk(<<".", "/">> \o fetch)

match_fetch(self, default) ==
    IF self.fetch = <<"/">> THEN FetchOk(<<".", "/">> \o default)
    ELSE IF self.fetch = <<"/", "/", "c", "o", "f", "f", "e", "e">>
    THEN LET content == TeapotContent
             content_len == Len(content)
         IN  Rejected(HttpResponse("ImATeapot418", Some(content), Some(content_len)))
    ELSE IF \/ find(self.fetch, <<"/", "/">>)
            \/ find(self.fetch, <<".", ".">>)
            \/ ends_with(self.fetch, <<"/">>)
    THEN Rejected(HttpResponse("Forbbiden403", None, None))
    ELSE LET fetch == replace(self.fetch, <<"%", "2", "0">>, <<" ">>)
         IN  IF starts_with(fetch, <<"/">>) THEN FetchOk(<<".">> \o fetch)
             ELSE FetchOk(<<".", "/">> \o fetch)

(***************************************************************************)
(* lib.rs: the per-connection handler.                                     *)
(*                                                                         *)
(* stream is what the connection's line iterator yields; read_fetch and    *)
(* read_err404 are the results fs::read_to_string gives for the resolved   *)
(* path and for the 404 fallback file.  The outcome lists the paths read,   *)
(* the responses constructed and the strings to_string makes of them for   *)
(* write_tcp_or_bail_out, in order, and whether an unwrap() on the         *)
(* resolved path panicked.                                                 *)
(***************************************************************************)
Outcome(panicked, reads, responses) ==
    [ panicked  |-> panicked,
      reads     |-> reads,
      responses |-> responses,
      written   |-> [i \in 1..Len(responses) |-> HttpResponse_to_string(responses[i])] ]

\* A handler that unwraps the read of the 404 fallback file: it panics,
\* without a response, when that file cannot be read.
respond_fetch_propagates(fetch, err404_file, read_fetch, read_err404) ==
    IF Len(fetch) < 3
    THEN Outcome(TRUE, <<>>, <<>>)
    ELSE IF fetch[3] = "_"
    THEN Outcome(FALSE, <<>>,
             <<HttpResponse("Forbbiden403", None, None)>>)
    ELSE IF read_fetch.ok
    THEN LET content == read_fetch.v
             len == Len(content)
         IN  Outcome(FALSE, <<fetch>>,
                 <<HttpResponse("OK200", Some(content), Some(len))>>)
    ELSE IF err404_file # None
    THEN IF read_err404.ok
         THEN Outcome(FALSE, <<fetch, unwrap(err404_file)>>,
                  <<HttpResponse("NotFound404", Some(read_err404.v),
                                 Some(Len(read_err404.v)))>>)
         ELSE Outcome(TRUE, <<fetch, unwrap(err404_file)>>, <<>>)
    ELSE Outcome(FALSE, <<fetch>>, <<HttpResponse("NotFound404", None, None)>>)

\* respond_http_request once match_fetch has given the path to fetch: the
\* three unwraps on its characters, the internal-file check and the reads.
respond_fetch(fetch, err404_file, read_fetch, read_err404) ==
    IF Len(fetch) < 3
    THEN Outcome(TRUE, <<>>, <<>>)
    ELSE IF fetch[3] = "_"
    THEN Outcome(FALSE, <<>>,
             <<HttpResponse("Forbbiden403", None, None)>>)
    ELSE IF read_fetch.ok
    THEN LET content == read_fetch.v
             len == Len(content)
         IN  Outcome(FALSE, <<fetch>>,
                 <<HttpResponse("OK200", Some(content), Some(len))>>)
    ELSE LET fallback ==
                 IF err404_file # None
                 THEN IF read_err404.ok
                      THEN <<Some(read_err404.v), Some(Len(read_err404.v))>>
                      ELSE <<None, None>>
                 ELSE <<None, None>>
             reads ==
                 IF err404_file # None THEN <<fetch, unwrap(err404_file)>>
                 ELSE <<fetch>>
         IN  Outcome(FALSE, reads,
                 <<HttpResponse("NotFound404", fallback[1], fallback[2])>>)

\* A handler that leaves the body out of what it answers to HEAD.
respond_http_request_head_bodyless(stream, default_file, err404_file, read_fetch, read_err404) ==
    LET request == parse_tcp_stream(stream)
    IN  IF request.ok
        THEN LET matched == match_fetch(request, default_file)
                 out == IF matched.ok
                        THEN respond_fetch(matched.path, err404_file, read_fetch, read_err404)
                        ELSE Outcome(FALSE, <<>>, <<matched.response>>)
             IN  IF request.method = "HEAD"
                 THEN Outcome(out.panicked, out.reads,
                          [i \in 1..Len(out.responses) |->
                              [out.responses[i] EXCEPT !.content = None]])
                 ELSE out
        ELSE Outcome(FALSE, <<>>, <<request.response>>)

\* A handler that drops a connection it cannot parse without answering it.
respond_http_request_silent(stream, default_file, err404_file, read_fetch, read_err404) ==
    LET request == parse_tcp_stream(stream)
    IN  IF request.ok
        THEN LET matched == match_fetch(request, default_file)
             IN  IF matched.ok
                 THEN respond_fetch(matched.path, err404_file, read_fetch, read_err404)
                 ELSE Outcome(FALSE, <<>>, <<matched.response>>)
        ELSE Outcome(FALSE, <<>>, <<>>)

respond_http_request(stream, default_file, err404_file, read_fetch, read_err404) ==
    LET request == parse_tcp_stream(stream)
    IN  IF request.ok
        THEN LET matched == match_fetch(request, default_file)
             IN  IF matched.ok
                 THEN respond_fetch(matched.path, err404_file, read_fetch, read_err404)
                 ELSE Outcome(FALSE, <<>>, <<matched.response>>)
        ELSE Outcome(FALSE, <<>>, <<request.response>>)

\* A write_tcp_or_bail_out that swallows the write error and returns.
write_tcp_or_carry_on(write_ok) == None

\* write_tcp_or_bail_out: the exit status the call ends the process with,
\* None when write_all succeeded and the call returns.
write_tcp_or_bail_out(write_ok) == IF write_ok THEN None ELSE Some(1)

(***************************************************************************)
(* Bounds of the model and the inputs drawn from them.                     *)
(***************************************************************************)
MaxConns == 4

MaxThreads == 2

MaxLimit == 1

\* How many turns of serve's wait loop are told apart.
MaxSpins == 2

Conns == 1..MaxConns

\* What a client may send before the handler reads its first line.
Streams ==
    { <<>>,
      <<IoErr>>,
      <<IoOk(<<"G","E","T">>)>>,
      <<IoOk(<<"P","O","S","T"," ","/">>)>>,
      <<IoOk(<<"G","E","T"," ","/"," ","H","T","T","P","/","1",".","1">>),
        IoOk(<<"H","o","s","t",":"," ","a">>)>>,
      <<IoOk(<<"G","E","T"," ","/","_","x">>)>>,
      <<IoOk(<<"H","E","A","D"," ","/","a">>)>>,
      <<IoOk(<<"G","E","T"," ","/","/","c","o","f","f","e","e">>)>>,
      <<IoOk(<<"G","E","T"," ","/","a","/">>)>> }

ReadResults == {IoErr, IoOk(<<"o", "k">>)}

DefaultFiles == {<<>>, <<"i">>}

Err404Files == {None, Some(<<"e">>)}

Configs ==
    [ max_threads    : {None} \cup {Some(m) : m \in 0..MaxThreads},
      default_file   : DefaultFiles,
      err404_file    : Err404Files,
      limit_requests : {None} \cup {Some(n) : n \in 0..MaxLimit} ]

\* Every outcome a handler can have under a configuration, over all the
\* client inputs and file-system answers.
HandlerOutcomes ==
    [ d \in DefaultFiles, e \in Err404Files |->
        { respond_http_request(s, d, e, rf, re) :
            s \in Streams, rf \in ReadResults, re \in ReadResults } ]

\* What of an outcome the rest of the server can observe: whether the
\* thread panicked and how many writes it asks for.
HandlerEffects ==
    [ d \in DefaultFiles, e \in Err404Files |->
        { [panicked |-> out.panicked, calls |-> Len(out.written)] :
            out \in HandlerOutcomes[d, e] } ]

(***************************************************************************)
(* The running server: main, start_server and serve on the control thread, *)
(* one handler thread per admitted connection, and the clients.            *)
(***************************************************************************)
VARIABLES
    config,         \* the Config start_server was given
    THREAD_COUNT,   \* lib.rs: static mut THREAD_COUNT: isize
    ctl,            \* where the control thread is
    count,          \* start_server: the limiting closure's count
    polls,          \* how many times serve has called incoming
    yield,          \* what the last call of incoming returned
    stream,         \* serve: the connection being admitted, 0 when none
    reg,            \* control thread: THREAD_COUNT as loaded by THREAD_COUNT += 1, 0 once stored
    result,         \* what start_server returned to main
    arrived,        \* connections clients have made to the listener
    yielded,        \* connections incoming has yielded, in order
    spawned,        \* connections whose handler thread was spawned, in order
    hpc,            \* where each handler thread is
    hreg,           \* handler: THREAD_COUNT as loaded by THREAD_COUNT -= 1, 0 once stored
    writes,         \* per handler: calls of write_tcp_or_bail_out
    releases,       \* per handler: completed THREAD_COUNT -= 1
    write_failed,   \* some write_all on a connection has failed
    exited,         \* the exit status of the process once it has terminated
    gate_reads,     \* serve: reads of THREAD_COUNT by the wait loop since it began
                    \* waiting or a handler last released, counted up to MaxSpins
    args,           \* a single call of a function: its arguments,
    ret,            \* its return value,
    pcall           \* and whether it is "ready" or has "returned" ("none": no call)

callVars == <<args, ret, pcall>>

serverVars ==
    <<config, THREAD_COUNT, ctl, count, polls, yield, stream, reg, result, arrived,
      yielded, spawned, hpc, hreg, writes, releases, write_failed, exited, gate_reads>>

vars == <<serverVars, callVars>>

YSome(s) == [tag |-> "Some", stream |-> s, msg |-> ""]

YNone == [tag |-> "None", stream |-> 0, msg |-> ""]

\* Before the first call of incoming has returned.
Unpolled == [tag |-> "Unpolled", stream |-> 0, msg |-> ""]

YErr(msg) == [tag |-> "Err", stream |-> 0, msg |-> msg]

Pending == [tag |-> "Pending", msg |-> "", from |-> ""]

ROk(from) == [tag |-> "Ok", msg |-> "", from |-> from]

RErr(msg, from) == [tag |-> "Err", msg |-> msg, from |-> from]

Running == exited = None

Init ==
    /\ config \in Configs
    /\ THREAD_COUNT = 0
    /\ ctl = "bind"
    /\ count = 0
    /\ polls = 0
    /\ yield = Unpolled
    /\ stream = 0
    /\ reg = 0
    /\ result = Pending
    /\ arrived = 0
    /\ yielded = <<>>
    /\ spawned = <<>>
    /\ hpc = [h \in Conns |-> "idle"]
    /\ hreg = [h \in Conns |-> 0]
    /\ writes = [h \in Conns |-> 0]
    /\ releases = [h \in Conns |-> 0]
    /\ write_failed = FALSE
    /\ exited = None
    /\ gate_reads = 0
    /\ args = <<>>
    /\ ret = <<>>
    /\ pcall = "none"

\* A client connects; the connection waits in the listener's backlog.
ClientConnect ==
    /\ Running
    /\ arrived < MaxConns
    /\ arrived' = arrived + 1
    /\ UNCHANGED <<callVars, gate_reads, config, THREAD_COUNT, ctl, count, polls, yield, stream, reg, result,
                   yielded, spawned, hpc, hreg, writes, releases, write_failed, exited>>

\* start_server: TcpListener::bind succeeds.
BindOk ==
    /\ Running
    /\ ctl = "bind"
    /\ ctl' = "loop"
    /\ UNCHANGED <<callVars, gate_reads, config, THREAD_COUNT, count, polls, yield, stream, reg, result, arrived,
                   yielded, spawned, hpc, hreg, writes, releases, write_failed, exited>>

\* start_server: TcpListener::bind fails and start_server returns Err.
BindErr ==
    /\ Running
    /\ ctl = "bind"
    /\ ctl' = "returned"
    /\ result' = RErr("Unable to bind", "start_server")
    /\ UNCHANGED <<callVars, gate_reads, config, THREAD_COUNT, count, polls, yield, stream, reg, arrived,
                   yielded, spawned, hpc, hreg, writes, releases, write_failed, exited>>

\* serve calls incoming: the closure start_server built.  With a request
\* limit it compares and bumps count before it asks the listener.
IncomingCall ==
    /\ Running
    /\ ctl = "loop"
    /\ polls' = polls + 1
    /\ IF config.limit_requests # None
       THEN IF count <= unwrap(config.limit_requests)
            THEN /\ count' = count + 1
                 /\ ctl' = "accept"
                 /\ UNCHANGED yield
            ELSE /\ yield' = YNone
                 /\ ctl' = "match"
                 /\ UNCHANGED count
       ELSE /\ ctl' = "accept"
            /\ UNCHANGED <<count, yield>>
    /\ UNCHANGED <<callVars, gate_reads, config, THREAD_COUNT, stream, reg, result, arrived, yielded, spawned,
                   hpc, hreg, writes, releases, write_failed, exited>>

\* iter.next() blocks until a connection is in the backlog and yields the oldest.
Accept ==
    /\ Running
    /\ ctl = "accept"
    /\ arrived > Len(yielded)
    /\ yield' = YSome(Len(yielded) + 1)
    /\ yielded' = Append(yielded, Len(yielded) + 1)
    /\ ctl' = "match"
    /\ UNCHANGED <<callVars, gate_reads, config, THREAD_COUNT, count, polls, stream, reg, result, arrived,
                   spawned, hpc, hreg, writes, releases, write_failed, exited>>

\* iter.next() yields an accept error.
AcceptErr ==
    /\ Running
    /\ ctl = "accept"
    /\ yield' = YErr("Connection failed. Bailing out.")
    /\ ctl' = "match"
    /\ UNCHANGED <<callVars, gate_reads, config, THREAD_COUNT, count, polls, stream, reg, result, arrived,
                   yielded, spawned, hpc, hreg, writes, releases, write_failed, exited>>

\* A serve that polls incoming again after it yielded Err.
ServeMatch_retry ==
    /\ Running
    /\ ctl = "match"
    /\ CASE yield.tag = "Some" ->
              /\ stream' = yield.stream
              /\ ctl' = "wait"
              /\ UNCHANGED result
         [] yield.tag = "None" ->
              /\ result' = ROk("serve")
              /\ ctl' = "returned"
              /\ UNCHANGED stream
         [] yield.tag = "Err" ->
              /\ ctl' = "loop"
              /\ UNCHANGED <<result, stream>>
    /\ UNCHANGED <<callVars, gate_reads, config, THREAD_COUNT, count, polls, yield, reg, arrived, yielded,
                   spawned, hpc, hreg, writes, releases, write_failed, exited>>

\* serve: match incoming() { ... }
ServeMatch ==
    /\ Running
    /\ ctl = "match"
    /\ CASE yield.tag = "Some" ->
              /\ stream' = yield.stream
              /\ ctl' = "wait"
              /\ UNCHANGED result
         [] yield.tag = "None" ->
              /\ result' = ROk("serve")
              /\ ctl' = "returned"
              /\ UNCHANGED stream
         [] yield.tag = "Err" ->
              /\ result' = RErr(yield.msg, "serve")
              /\ ctl' = "returned"
              /\ UNCHANGED stream
    /\ UNCHANGED <<callVars, gate_reads, config, THREAD_COUNT, count, polls, yield, reg, arrived, yielded,
                   spawned, hpc, hreg, writes, releases, write_failed, exited>>

\* A serve that drops the connection when the counter is at max_threads
\* and goes on to the next one instead of waiting.
WaitGate_drop ==
    /\ Running
    /\ ctl = "wait"
    /\ IF config.max_threads # None
       THEN IF THREAD_COUNT < unwrap(config.max_threads)
            THEN ctl' = "inc_load" /\ UNCHANGED stream
            ELSE ctl' = "loop" /\ stream' = 0
       ELSE ctl' = "inc_load" /\ UNCHANGED stream
    /\ gate_reads' = 0
    /\ UNCHANGED <<callVars, config, THREAD_COUNT, count, polls, yield, reg, result, arrived,
                   yielded, spawned, hpc, hreg, writes, releases, write_failed, exited>>

\* serve: one turn of the loop that waits for the thread counter.  The cast
\* `max_threads as isize` keeps the value of every max_threads below 2^63,
\* which covers the configurations drawn here.
WaitGate ==
    /\ Running
    /\ ctl = "wait"
    /\ IF config.max_threads # None
       THEN IF THREAD_COUNT < unwrap(config.max_threads)
            THEN ctl' = "inc_load" /\ gate_reads' = 0
            ELSE /\ ctl' = "wait"
                 /\ gate_reads' = IF gate_reads < MaxSpins THEN gate_reads + 1 ELSE MaxSpins
       ELSE ctl' = "inc_load" /\ gate_reads' = 0
    /\ UNCHANGED <<callVars, config, THREAD_COUNT, count, polls, yield, stream, reg, result, arrived,
                   yielded, spawned, hpc, hreg, writes, releases, write_failed, exited>>

\* serve: THREAD_COUNT += 1 on a plain static: the load ...
IncLoad ==
    /\ Running
    /\ ctl = "inc_load"
    /\ reg' = THREAD_COUNT
    /\ ctl' = "inc_store"
    /\ UNCHANGED <<callVars, gate_reads, config, THREAD_COUNT, count, polls, yield, stream, result, arrived,
                   yielded, spawned, hpc, hreg, writes, releases, write_failed, exited>>

\* ... and the store.
IncStore ==
    /\ Running
    /\ ctl = "inc_store"
    /\ THREAD_COUNT' = reg + 1
    /\ reg' = 0
    /\ ctl' = "spawn"
    /\ UNCHANGED <<callVars, gate_reads, config, count, polls, yield, stream, result, arrived,
                   yielded, spawned, hpc, hreg, writes, releases, write_failed, exited>>

\* serve: thread::Builder::new().spawn(..) starts the handler thread.
Spawn ==
    /\ Running
    /\ ctl = "spawn"
    /\ spawned' = Append(spawned, stream)
    /\ hpc' = [hpc EXCEPT ![stream] = "respond"]
    /\ stream' = 0
    /\ ctl' = "loop"
    /\ UNCHANGED <<callVars, gate_reads, config, THREAD_COUNT, count, polls, yield, reg, result, arrived,
                   yielded, hreg, writes, releases, write_failed, exited>>

\* serve: spawn fails; the closure and its stream are dropped and serve returns Err.
SpawnErr ==
    /\ Running
    /\ ctl = "spawn"
    /\ result' = RErr("ERROR: Unable to spawn new threads.", "serve")
    /\ stream' = 0
    /\ ctl' = "returned"
    /\ UNCHANGED <<callVars, gate_reads, config, THREAD_COUNT, count, polls, yield, reg, arrived, yielded,
                   spawned, hpc, hreg, writes, releases, write_failed, exited>>

\* main: start_server has returned; main returns (status 0) or calls
\* process::exit(1).  Either ends the process and every thread in it.
MainExit ==
    /\ Running
    /\ ctl = "returned"
    /\ exited' = IF result.tag = "Ok" THEN Some(0) ELSE Some(1)
    /\ ctl' = "exited"
    /\ UNCHANGED <<callVars, gate_reads, config, THREAD_COUNT, count, polls, yield, stream, reg, result, arrived,
                   yielded, spawned, hpc, hreg, writes, releases, write_failed>>

\* Handler thread h runs respond_http_request: it reads the request, reads
\* the files and hands each response to write_tcp_or_bail_out, whose
\* write_all succeeds or fails; or it panics on an unwrap.
Respond(h) ==
    /\ Running
    /\ hpc[h] = "respond"
    /\ \E out \in HandlerEffects[config.default_file, config.err404_file],
          write_ok \in BOOLEAN :
          IF out.panicked
          THEN /\ write_ok
               /\ hpc' = [hpc EXCEPT ![h] = "panicked"]
               /\ UNCHANGED <<writes, write_failed, exited>>
          ELSE IF out.calls = 0
          THEN /\ write_ok
               /\ hpc' = [hpc EXCEPT ![h] = "dec_load"]
               /\ UNCHANGED <<writes, write_failed, exited>>
          ELSE /\ writes' = [writes EXCEPT ![h] = @ + IF write_ok THEN out.calls ELSE 1]
               /\ write_failed' = (write_failed \/ ~write_ok)
               /\ exited' = write_tcp_or_bail_out(write_ok)
               /\ hpc' = [hpc EXCEPT
                            ![h] = IF exited' = None THEN "dec_load" ELSE "bailed"]
    /\ UNCHANGED <<callVars, gate_reads, config, THREAD_COUNT, ctl, count, polls, yield, stream, reg, result,
                   arrived, yielded, spawned, hreg, releases>>

\* Handler thread h: THREAD_COUNT -= 1 on a plain static: the load ...
DecLoad(h) ==
    /\ Running
    /\ hpc[h] = "dec_load"
    /\ hreg' = [hreg EXCEPT ![h] = THREAD_COUNT]
    /\ hpc' = [hpc EXCEPT ![h] = "dec_store"]
    /\ UNCHANGED <<callVars, gate_reads, config, THREAD_COUNT, ctl, count, polls, yield, stream, reg, result,
                   arrived, yielded, spawned, writes, releases, write_failed, exited>>

\* ... and the store, after which the thread ends.
DecStore(h) ==
    /\ Running
    /\ hpc[h] = "dec_store"
    /\ THREAD_COUNT' = hreg[h] - 1
    /\ hreg' = [hreg EXCEPT ![h] = 0]
    /\ gate_reads' = 0
    /\ releases' = [releases EXCEPT ![h] = @ + 1]
    /\ hpc' = [hpc EXCEPT ![h] = "done"]
    /\ UNCHANGED <<callVars, config, ctl, count, polls, yield, stream, reg, result,
                   arrived, yielded, spawned, writes, write_failed, exited>>

Next ==
    \/ ClientConnect
    \/ BindOk
    \/ BindErr
    \/ IncomingCall
    \/ Accept
    \/ AcceptErr
    \/ ServeMatch
    \/ WaitGate
    \/ IncLoad
    \/ IncStore
    \/ Spawn
    \/ SpawnErr
    \/ MainExit
    \/ \E h \in Conns : Respond(h)
    \/ \E h \in Conns : DecLoad(h)
    \/ \E h \in Conns : DecStore(h)

Spec == Init /\ [][Next]_vars

(***************************************************************************)
(* Properties.                                                             *)
(***************************************************************************)
\* Handlers that were spawned and have not finished respond_http_request.
InFlight == {h \in Conns : hpc[h] = "respond"}

IsPrefix(s, t) == Len(s) <= Len(t) /\ SubSeq(t, 1, Len(s)) = s

SpawnFailed == result = RErr("ERROR: Unable to spawn new threads.", "serve")

\* C1: when max_threads is Some(M), at most M handlers are spawned and not
\* yet through respond_http_request, in every reachable state.
C1_AtMostMaxThreadsInFlight ==
    config.max_threads # None => Cardinality(InFlight) <= unwrap(config.max_threads)

\* C2: when limit_requests is Some(N), at most N connections are handed to a
\* handler, and serve has admitted exactly N when it returns Ok.
C2_AdmitsExactlyLimit ==
    config.limit_requests # None =>
        /\ Len(spawned) <= unwrap(config.limit_requests)
        /\ result = ROk("serve") => Len(spawned) = unwrap(config.limit_requests)

\* C3: when limit_requests is Some(N) and N connections have been admitted,
\* the control thread does not wait in the listener for another connection.
C3_NoWaitOnceLimitAdmitted ==
    (config.limit_requests # None /\ Len(spawned) = unwrap(config.limit_requests))
        => ctl # "accept"

\* C4: serve returns Ok only after incoming yielded Ok(None), returns Err(e)
\* right after incoming yielded Err(e), returns Err when the handler thread
\* cannot be spawned, and after it returned incoming is not polled and no
\* connection is dispatched.
C4_ServeOutcomes ==
    /\ [](/\ result = ROk("serve") => yield = YNone
          /\ (result.tag = "Err" /\ result.from = "serve") =>
                \/ yield.tag = "Err" /\ result.msg = yield.msg
                \/ yield.tag = "Some" /\ SpawnFailed /\ Len(spawned) < Len(yielded)
          /\ (yield.tag \in {"None", "Err"} /\ ctl # "match") =>
                /\ result.from = "serve"
                /\ ctl \in {"returned", "exited"}
          /\ result.from = "serve" => ctl \in {"returned", "exited"})
    /\ [][/\ (ctl = "spawn" /\ ctl' # "spawn") =>
                (spawned' # spawned \/ (result'.tag = "Err" /\ result'.from = "serve"))
          /\ result.tag # "Pending" =>
                (polls' = polls /\ yielded' = yielded /\ spawned' = spawned
                 /\ result' = result)]_vars

C4_Witness ==
    /\ result = RErr("Connection failed. Bailing out.", "serve")
    /\ Len(spawned) >= 1
    /\ arrived > Len(yielded)

\* C5: whenever no THREAD_COUNT += 1 or -= 1 is between its load and its
\* store, THREAD_COUNT equals the admissions made minus the releases made.
C5_CounterIsExact ==
    (ctl # "inc_store" /\ \A h \in Conns : hpc[h] # "dec_store") =>
        THREAD_COUNT = Len(spawned)
                       + (IF ctl = "spawn" \/ SpawnFailed THEN 1 ELSE 0)
                       - Cardinality({h \in Conns : releases[h] > 0})

\* C6: a handler thread that has ended has decremented THREAD_COUNT exactly
\* once, and no handler decrements twice.
C6_ReleasesExactlyOnce ==
    \A h \in Conns :
        /\ releases[h] <= 1
        /\ hpc[h] \in {"done", "panicked"} => releases[h] = 1

\* C7: handlers are spawned in the order incoming yields the connections,
\* and every yielded connection is spawned before incoming is called again.
C7_AdmittedInYieldOrder ==
    /\ IsPrefix(spawned, yielded)
    /\ ctl \in {"loop", "accept"} => spawned = yielded
    /\ ctl \in {"wait", "inc_load", "inc_store", "spawn"} =>
          yielded = Append(spawned, stream)

C7_Witness ==
    /\ config.max_threads = Some(1)
    /\ spawned = <<1, 2, 3>>
    /\ ctl = "loop"

\* C8: when the process has ended because main returned or exited, every
\* handler that was admitted has finished respond_http_request.
C8_AdmittedHandlersFinish ==
    ctl = "exited" => InFlight = {}

\* C9: a handler that has returned from respond_http_request has called
\* write_tcp_or_bail_out exactly once, and no handler calls it twice.
C9_ExactlyOneWrite ==
    \A h \in Conns :
        /\ writes[h] <= 1
        /\ hpc[h] \in {"dec_load", "dec_store", "done", "bailed"} => writes[h] = 1

C9_Witness ==
    \E h \in Conns : \E g \in Conns \ {h} :
        /\ hpc[h] = "done" /\ writes[h] = 1
        /\ hpc[g] = "bailed" /\ writes[g] = 1

Parked ==
    /\ config = [max_threads |-> None, default_file |-> <<"i">>,
                 err404_file |-> None, limit_requests |-> None]
    /\ THREAD_COUNT = 0
    /\ ctl = "bind"
    /\ count = 0
    /\ polls = 0
    /\ yield = Unpolled
    /\ stream = 0
    /\ reg = 0
    /\ result = Pending
    /\ arrived = 0
    /\ yielded = <<>>
    /\ spawned = <<>>
    /\ hpc = [h \in Conns |-> "idle"]
    /\ hreg = [h \in Conns |-> 0]
    /\ writes = [h \in Conns |-> 0]
    /\ releases = [h \in Conns |-> 0]
    /\ write_failed = FALSE
    /\ exited = None
    /\ gate_reads = 0

\* Sequences over S of length at most n.
SeqsUpTo(S, n) == UNION {[1..k -> S] : k \in 0..n}

RECURSIVE Concat(_)
Concat(ss) == IF ss = <<>> THEN <<>> ELSE Head(ss) \o Concat(Tail(ss))

(***************************************************************************)
(* parse_from_lines_iterator applied to one line iterator.                 *)
(***************************************************************************)
MaxTokens == 3

GET == <<"G", "E", "T">>

HEAD == <<"H", "E", "A", "D">>

ParseTokens ==
    { GET, HEAD, <<"P", "O", "S", "T">>, <<"g", "e", "t">>, <<"/">>,
      <<"/", "a", "%", "2", "0", "b">>, <<"H", "T", "T", "P", "/", "1", ".", "1">> }

\* A request line: its tokens, the whitespace before the first, between
\* them and after the last; whether reading it succeeds, fails or finds the
\* stream at its end; and whether a header line follows.
ParseInputs ==
    [ tokens : SeqsUpTo(ParseTokens, MaxTokens),
      lead   : {<<>>, <<" ">>},
      sep    : {<<" ">>, <<"\t">>},
      trail  : {<<>>, <<"\r">>},
      first  : {"ok", "err", "none"},
      more   : BOOLEAN ]

LineOf(a) ==
    a.lead
    \o Concat([i \in 1..Len(a.tokens) |->
                  IF i = 1 THEN a.tokens[i] ELSE a.sep \o a.tokens[i]])
    \o a.trail

LinesOf(a) ==
    LET rest == IF a.more THEN <<IoOk(<<"H", "o", "s", "t", ":", " ", "a">>)>> ELSE <<>>
    IN  CASE a.first = "none" -> <<>>
          [] a.first = "err"  -> <<IoErr>> \o rest
          [] a.first = "ok"   -> <<IoOk(LineOf(a))>> \o rest

ParseInit ==
    /\ Parked
    /\ args \in ParseInputs
    /\ ret = <<>>
    /\ pcall = "ready"

ParseCall ==
    /\ pcall = "ready"
    /\ ret' = parse_from_lines_iterator(LinesOf(args))
    /\ pcall' = "returned"
    /\ UNCHANGED <<serverVars, args>>

SpecParse == ParseInit /\ [][ParseCall]_vars

\* C11: a first line read successfully with at least two tokens, the first
\* GET or HEAD, parses to Ok with that method and the second token unchanged
\* as fetch, whatever further tokens and lines follow.
C11_ParsesValidRequestLine ==
    (/\ pcall = "returned"
     /\ args.first = "ok"
     /\ Len(args.tokens) >= 2
     /\ args.tokens[1] \in {GET, HEAD})
    => /\ ret.ok
       /\ ret.method = (IF args.tokens[1] = GET THEN "GET" ELSE "HEAD")
       /\ ret.fetch = args.tokens[2]

C11_Witness ==
    /\ pcall = "returned"
    /\ args.first = "ok"
    /\ args.tokens = <<HEAD, <<"/", "a", "%", "2", "0", "b">>,
                       <<"H", "T", "T", "P", "/", "1", ".", "1">> >>
    /\ args.sep = <<"\t">>
    /\ args.more
    /\ ret = [ok |-> TRUE, method |-> "HEAD", fetch |-> <<"/", "a", "%", "2", "0", "b">>]

\* C12: an empty iterator, a failed first read or a line of fewer than two
\* tokens gives the 400 response without body; the 501 response without
\* body is given exactly for a line of at least two tokens whose first is
\* neither GET nor HEAD; 405 is never given.
C12_RejectsInvalidRequestLine ==
    pcall = "returned" =>
        LET valid == args.first = "ok" /\ Len(args.tokens) >= 2
            is400 == ~ret.ok /\ ret.response = [code |-> "BadRequest400",
                                                content |-> {}, content_length |-> {}]
            is501 == ~ret.ok /\ ret.response = [code |-> "NotImplemented501",
                                                content |-> {}, content_length |-> {}]
        IN  /\ ~valid => is400
            /\ is501 <=> (valid /\ args.tokens[1] \notin {GET, HEAD})
            /\ ~ret.ok => ret.response.code # "MethodNotAllowed405"

C12_Witness ==
    /\ pcall = "returned"
    /\ args.first = "ok"
    /\ args.tokens = << <<"P", "O", "S", "T">>, <<"/">> >>
    /\ args.sep = <<"\t">>
    /\ ret.response.code = "NotImplemented501"

(***************************************************************************)
(* match_fetch applied to one request and one default file name.           *)
(***************************************************************************)
MaxFetchLen == 4

FetchAlphabet == {"/", ".", "%", "2", "0", "a", "_"}

Coffee == <<"/", "/", "c", "o", "f", "f", "e", "e">>

FetchTargets == SeqsUpTo(FetchAlphabet, MaxFetchLen) \cup {Coffee}

\* Default file names: none of them contains a path separator.
FetchDefaults == {<<>>, <<"i">>, <<"_", "i">>, <<".", ".">>}

FetchInit ==
    /\ Parked
    /\ args \in [fetch : FetchTargets, method : HttpMethod, default : FetchDefaults]
    /\ ret = <<>>
    /\ pcall = "ready"

MatchFetchCall ==
    /\ pcall = "ready"
    /\ ret' = match_fetch([method |-> args.method, fetch |-> args.fetch], args.default)
    /\ pcall' = "returned"
    /\ UNCHANGED <<serverVars, args>>

SpecFetch == FetchInit /\ [][MatchFetchCall]_vars

\* p occurs in s as a run of consecutive characters.
Occurs(p, s) ==
    \E i \in 0..(Len(s) - Len(p)) : \A j \in 1..Len(p) : s[i + j] = p[j]

\* s with each "%20" turned into a space, reading from the left.
RECURSIVE Unescaped(_, _)
Unescaped(s, i) ==
    IF i > Len(s) THEN <<>>
    ELSE IF i + 2 <= Len(s) /\ s[i] = "%" /\ s[i + 1] = "2" /\ s[i + 2] = "0"
    THEN <<" ">> \o Unescaped(s, i + 3)
    ELSE <<s[i]>> \o Unescaped(s, i + 1)

Forbidden403 == [code |-> "Forbbiden403", content |-> {}, content_length |-> {}]

\* C13: match_fetch decides in this order: "/" gives "./" + default;
\* "//coffee" gives 418 with a non-empty body whose length is content_length;
\* a target with "//" or ".." or a final "/" gives 403 without body; any
\* other target gives itself with "%20" as spaces, after "." when it starts
\* with "/" and after "./" otherwise.
C13_MatchFetchDecisionOrder ==
    pcall = "returned" =>
        LET t == args.fetch
        IN  IF t = <<"/">> THEN ret.ok /\ ret.path = <<".", "/">> \o args.default
            ELSE IF t = Coffee
            THEN /\ ~ret.ok
                 /\ ret.response.code = "ImATeapot418"
                 /\ ret.response.content # {}
                 /\ \A c \in ret.response.content :
                        Len(c) > 0 /\ ret.response.content_length = {Len(c)}
            ELSE IF \/ Occurs(<<"/", "/">>, t)
                    \/ Occurs(<<".", ".">>, t)
                    \/ (t # <<>> /\ t[Len(t)] = "/")
            THEN ~ret.ok /\ ret.response = Forbidden403
            ELSE /\ ret.ok
                 /\ ret.path = (IF t # <<>> /\ t[1] = "/" THEN <<".">> ELSE <<".", "/">>)
                               \o Unescaped(t, 1)

C13_Witness ==
    /\ pcall = "returned"
    /\ args.fetch = <<"/", "%", "2", "0">>
    /\ ret.ok
    /\ ret.path = <<".", "/", " ">>

PathIsSafe(path) ==
    /\ Len(path) >= 2 /\ path[1] = "." /\ path[2] = "/"
    /\ ~Occurs(<<".", ".">>, path)
    /\ ~Occurs(<<"/", "/">>, path)

\* C14 as stated: with a default file name free of path separators, every
\* Ok path starts with "./" and contains neither ".." nor "//".
C14_OkPathStaysInside ==
    (pcall = "returned" /\ ret.ok /\ ~Occurs(<<"/">>, args.default))
        => PathIsSafe(ret.path)

\* C14 as amended: with a default file name that contains neither a path
\* separator nor "..", every Ok path starts with "./" and contains neither
\* ".." nor "//".
C14_OkPathStaysInsideGivenPlainDefault ==
    (/\ pcall = "returned"
     /\ ret.ok
     /\ ~Occurs(<<"/">>, args.default)
     /\ ~Occurs(<<".", ".">>, args.default))
        => PathIsSafe(ret.path)

C14_Witness ==
    /\ pcall = "returned"
    /\ args.fetch = <<".", "%", "2", "0">>
    /\ args.default = <<"_", "i">>
    /\ ret.ok
    /\ ret.path = <<".", "/", ".", " ">>

(***************************************************************************)
(* HttpResponse::to_string applied to one response.  The struct's fields   *)
(* are public, so content and content_length are drawn independently.      *)
(***************************************************************************)
MaxContentLength == 12

RenderContents == {None, Some(<<>>), Some(<<"a", "b">>), Some(<<"a", "\r", "\n", "b", "\n">>)}

RenderInit ==
    /\ Parked
    /\ args \in [ code           : HttpResponseCode,
                  content        : RenderContents,
                  content_length : {None} \cup {Some(n) : n \in 0..MaxContentLength} ]
    /\ ret = <<>>
    /\ pcall = "ready"

ToStringCall ==
    /\ pcall = "ready"
    /\ ret' = HttpResponse_to_string(args)
    /\ pcall' = "returned"
    /\ UNCHANGED <<serverVars, args>>

SpecRender == RenderInit /\ [][ToStringCall]_vars

CRLF == <<"\r", "\n">>

\* The decimal numeral of n as a sequence of digits, most significant first.
Numeral(n) ==
    LET digits == <<"0", "1", "2", "3", "4", "5", "6", "7", "8", "9">>
        width == CHOOSE w \in 1..10 : n < 10^w /\ (w > 1 => n >= 10^(w - 1))
    IN  [i \in 1..width |-> digits[((n \div 10^(width - i)) % 10) + 1]]

\* C15: a response renders as "HTTP/1.1 " + code and reason + CRLF, then
\* "Content-Length: n" + CRLF + CRLF iff content_length is present, then the
\* content + CRLF iff content is present, then CRLF; the 404 without body
\* renders as "HTTP/1.1 404 Not Found" + CRLF + CRLF.
C15_ToStringRendering ==
    pcall = "returned" =>
        /\ ret = <<"H", "T", "T", "P", "/", "1", ".", "1", " ">>
                 \o HttpResponseCode_to_string(args.code) \o CRLF
                 \o Concat([i \in 1..Cardinality(args.content_length) |->
                       <<"C", "o", "n", "t", "e", "n", "t", "-",
                         "L", "e", "n", "g", "t", "h", ":", " ">>
                       \o Numeral(unwrap(args.content_length)) \o CRLF \o CRLF])
                 \o Concat([i \in 1..Cardinality(args.content) |->
                       unwrap(args.content) \o CRLF])
                 \o CRLF
        /\ (args.code = "NotFound404" /\ args.content = {} /\ args.content_length = {})
             => ret = <<"H","T","T","P","/","1",".","1"," ","4","0","4"," ",
                        "N","o","t"," ","F","o","u","n","d","\r","\n","\r","\n">>

C15_Witness ==
    /\ pcall = "returned"
    /\ args = [code |-> "OK200", content |-> {<<"a", "b">>}, content_length |-> {12}]
    /\ ret = <<"H","T","T","P","/","1",".","1"," ","2","0","0"," ","O","k","\r","\n",
               "C","o","n","t","e","n","t","-","L","e","n","g","t","h",":"," ","1","2",
               "\r","\n","\r","\n","a","b","\r","\n","\r","\n">>

(***************************************************************************)
(* config.rs: the configuration and its command line.                      *)
(***************************************************************************)
Config_new ==
    [ port           |-> <<"6","9","6","9">>,
      addr           |-> <<"1","2","7",".","0",".","0",".","1">>,
      max_threads    |-> None,
      default_file   |-> <<"i","n","d","e","x",".","h","t","m","l">>,
      err404_file    |-> None,
      limit_requests |-> None ]

DigitValue(c) == CHOOSE d \in 0..9 : Digit(d) = c

IsDigit(c) == \E d \in 0..9 : Digit(d) = c

RECURSIVE DigitsValue(_, _)
DigitsValue(s, acc) ==
    IF s = <<>> THEN acc ELSE DigitsValue(Tail(s), acc * 10 + DigitValue(Head(s)))

\* An atoi-like parse that gives 0 for what is not a number.
parse_usize_lenient(value) ==
    IF value # <<>> /\ \A i \in 1..Len(value) : IsDigit(value[i])
    THEN [ok |-> TRUE, v |-> DigitsValue(value, 0)]
    ELSE [ok |-> TRUE, v |-> 0]

\* str::parse::<usize>: an optional "+" and then one or more decimal digits.
\* Values of 2^64 and more, which it rejects, are beyond the arguments drawn.
parse_usize(value) ==
    LET digits == IF value # <<>> /\ Head(value) = "+" THEN Tail(value) ELSE value
    IN  IF digits # <<>> /\ \A i \in 1..Len(digits) : IsDigit(digits[i])
        THEN [ok |-> TRUE, v |-> DigitsValue(digits, 0)]
        ELSE [ok |-> FALSE, v |-> 0]

SetOk(cfg) == [ok |-> TRUE, config |-> cfg]

SetErr(msg) == [ok |-> FALSE, msg |-> msg]

\* A set_option without the guard on a thread limit of 0.
set_option_allows_zero(self, arg, value) ==
    IF arg \in {<<"-","-","p","o","r","t">>, <<"-", "p">>}
    THEN SetOk([self EXCEPT !.port = value])
    ELSE IF arg \in {<<"-","-","a","d","d","r">>, <<"-", "a">>}
    THEN SetOk([self EXCEPT !.addr = value])
    ELSE IF arg \in {<<"-","-","d","e","f","a","u","l","t","-","f","i","l","e">>,
                     <<"-", "f">>}
    THEN SetOk([self EXCEPT !.default_file = value])
    ELSE IF arg \in {<<"-","-","e","r","r","4","0","4","-","f","i","l","e">>,
                     <<"-", "e">>}
    THEN SetOk([self EXCEPT !.err404_file = Some(value)])
    ELSE IF arg \in {<<"-","-","m","a","x","-","t","h","r","e","a","d","s">>,
                     <<"-", "t">>}
    THEN LET n == parse_usize(value)
         IN  IF ~n.ok THEN SetErr(<<value, " is not a valid number!">>)
             ELSE SetOk([self EXCEPT !.max_threads = Some(n.v)])
    ELSE IF arg \in {<<"-","-","l","i","m","i","t","-","r","e","q","u","e","s","t","s">>,
                     <<"-", "l">>}
    THEN LET n == parse_usize(value)
         IN  IF ~n.ok THEN SetErr(<<value, " is not a valid number!">>)
             ELSE SetOk([self EXCEPT !.limit_requests = Some(n.v)])
    ELSE SetErr(<<"No such option: ", arg>>)

set_option(self, arg, value) ==
    IF arg \in {<<"-","-","p","o","r","t">>, <<"-", "p">>}
    THEN SetOk([self EXCEPT !.port = value])
    ELSE IF arg \in {<<"-","-","a","d","d","r">>, <<"-", "a">>}
    THEN SetOk([self EXCEPT !.addr = value])
    ELSE IF arg \in {<<"-","-","d","e","f","a","u","l","t","-","f","i","l","e">>,
                     <<"-", "f">>}
    THEN SetOk([self EXCEPT !.default_file = value])
    ELSE IF arg \in {<<"-","-","e","r","r","4","0","4","-","f","i","l","e">>,
                     <<"-", "e">>}
    THEN SetOk([self EXCEPT !.err404_file = Some(value)])
    ELSE IF arg \in {<<"-","-","m","a","x","-","t","h","r","e","a","d","s">>,
                     <<"-", "t">>}
    THEN LET n == parse_usize(value)
         IN  IF ~n.ok THEN SetErr(<<value, " is not a valid number!">>)
             ELSE IF n.v <= 0 THEN SetErr(<<value, " is not integer greater then 0!">>)
             ELSE SetOk([self EXCEPT !.max_threads = Some(n.v)])
    ELSE IF arg \in {<<"-","-","l","i","m","i","t","-","r","e","q","u","e","s","t","s">>,
                     <<"-", "l">>}
    THEN LET n == parse_usize(value)
         IN  IF ~n.ok THEN SetErr(<<value, " is not a valid number!">>)
             ELSE SetOk([self EXCEPT !.limit_requests = Some(n.v)])
    ELSE SetErr(<<"No such option: ", arg>>)

\* build_from_cmdline: the loop over what follows the program name.
RECURSIVE build_loop(_, _)
build_loop(cfg, rest) ==
    IF rest = <<>> THEN SetOk(cfg)
    ELSE IF Len(rest) = 1 THEN SetErr(<<"No value specified for ", rest[1]>>)
    ELSE LET set == set_option(cfg, rest[1], rest[2])
         IN  IF set.ok THEN build_loop(set.config, Drop(rest, 2)) ELSE set

build_from_cmdline(cmdline) ==
    LET cfg == Config_new
    IN  IF cmdline = <<>> THEN SetOk(cfg) ELSE build_loop(cfg, Tail(cmdline))

(***************************************************************************)
(* build_from_cmdline applied to one command line.                         *)
(***************************************************************************)
MaxPairs == 2

CmdOptions ==
    { <<"-", "p">>, <<"-", "a">>, <<"-", "f">>, <<"-", "e">>, <<"-", "t">>, <<"-", "l">>,
      <<"-","-","p","o","r","t">>,
      <<"-","-","m","a","x","-","t","h","r","e","a","d","s">>,
      <<"-","-","l","i","m","i","t","-","r","e","q","u","e","s","t","s">>,
      <<"-", "x">> }

CmdValues == {<<"8">>, <<"1", "2">>, <<"+", "3">>, <<"0">>, <<"x">>, <<>>}

\* A command line: whether it has a program name, the option/value pairs
\* after it, and the words left over after the last pair.
CmdInputs ==
    [ prog  : BOOLEAN,
      pairs : SeqsUpTo(CmdOptions \X CmdValues, MaxPairs),
      last  : {<<>>, << <<"-", "p">> >>, << <<"x">> >>} ]

CmdLineOf(a) ==
    IF a.prog
    THEN << <<"q", "s", "t">> >>
         \o Concat([i \in 1..Len(a.pairs) |-> <<a.pairs[i][1], a.pairs[i][2]>>])
         \o a.last
    ELSE <<>>

ConfigInit ==
    /\ Parked
    /\ args \in {a \in CmdInputs : a.prog \/ (a.pairs = <<>> /\ a.last = <<>>)}
    /\ ret = <<>>
    /\ pcall = "ready"

BuildCall ==
    /\ pcall = "ready"
    /\ ret' = build_from_cmdline(CmdLineOf(args))
    /\ pcall' = "returned"
    /\ UNCHANGED <<serverVars, args>>

SpecConfig == ConfigInit /\ [][BuildCall]_vars

\* The field an option names, "" for an unknown option.
FieldOf(opt) ==
    CASE opt \in {<<"-", "p">>, <<"-","-","p","o","r","t">>} -> "port"
      [] opt = <<"-", "a">> -> "addr"
      [] opt = <<"-", "f">> -> "default_file"
      [] opt = <<"-", "e">> -> "err404_file"
      [] opt \in {<<"-", "t">>, <<"-","-","m","a","x","-","t","h","r","e","a","d","s">>}
            -> "max_threads"
      [] opt \in {<<"-", "l">>,
                  <<"-","-","l","i","m","i","t","-","r","e","q","u","e","s","t","s">>}
            -> "limit_requests"
      [] OTHER -> ""

NumberOf(v) ==
    CASE v = <<"8">> -> {8}
      [] v = <<"1", "2">> -> {12}
      [] v = <<"+", "3">> -> {3}
      [] v = <<"0">> -> {0}
      [] OTHER -> {}

\* What a pair asks its field to be.
Wanted(pair) ==
    CASE FieldOf(pair[1]) \in {"port", "addr", "default_file"} -> pair[2]
      [] FieldOf(pair[1]) = "err404_file" -> {pair[2]}
      [] OTHER -> NumberOf(pair[2])

PairAccepted(pair) ==
    /\ FieldOf(pair[1]) # ""
    /\ FieldOf(pair[1]) \in {"max_threads", "limit_requests"} => NumberOf(pair[2]) # {}
    /\ FieldOf(pair[1]) = "max_threads" => NumberOf(pair[2]) # {0}

DefaultConfig ==
    [ port           |-> <<"6","9","6","9">>,
      addr           |-> <<"1","2","7",".","0",".","0",".","1">>,
      max_threads    |-> {},
      default_file   |-> <<"i","n","d","e","x",".","h","t","m","l">>,
      err404_file    |-> {},
      limit_requests |-> {} ]

\* C16: no arguments or the program name alone give the default config;
\* accepted option/value pairs each set their own field and no other; a
\* trailing option without value, an unknown option and a non-numeric value
\* for --max-threads or --limit-requests give Err.
C16_BuildFromCmdline ==
    pcall = "returned" =>
        LET n == Len(args.pairs)
            SetBy(f) == {i \in 1..n : FieldOf(args.pairs[i][1]) = f}
            Final(f) ==
                IF SetBy(f) = {} THEN DefaultConfig[f]
                ELSE Wanted(args.pairs[CHOOSE i \in SetBy(f) : \A j \in SetBy(f) : j <= i])
        IN  /\ (n = 0 /\ args.last = <<>>) => (ret.ok /\ ret.config = DefaultConfig)
            /\ (args.last = <<>> /\ \A i \in 1..n : PairAccepted(args.pairs[i]))
                 => /\ ret.ok
                    /\ \A f \in DOMAIN DefaultConfig : ret.config[f] = Final(f)
            /\ args.last # <<>> => ~ret.ok
            /\ (\E i \in 1..n : FieldOf(args.pairs[i][1]) = "") => ~ret.ok
            /\ (\E i \in 1..n :
                   /\ FieldOf(args.pairs[i][1]) \in {"max_threads", "limit_requests"}
                   /\ NumberOf(args.pairs[i][2]) = {}) => ~ret.ok

C16_Witness ==
    /\ pcall = "returned"
    /\ args.pairs = << <<<<"-","-","m","a","x","-","t","h","r","e","a","d","s">>,
                         <<"1", "2">> >>,
                       << <<"-", "e">>, <<"x">> >> >>
    /\ args.last = <<>>
    /\ ret.ok
    /\ ret.config = [DefaultConfig EXCEPT !.max_threads = {12}, !.err404_file = {<<"x">>}]

(***************************************************************************)
(* respond_http_request applied to one connection.                         *)
(***************************************************************************)
RespondStreams ==
    Streams \cup
    { <<IoOk(<<"G","E","T"," ","/",".",".">>)>>,
      <<IoOk(<<"G","E","T"," ","_","x">>)>>,
      <<IoOk(<<"H","E","A","D"," ","/","a","%","2","0","b">>)>> }

RespondDefaultFiles == DefaultFiles \cup {<<"_", "i">>}

RespondReadResults == ReadResults \cup {IoOk(<<>>)}

RespondInputs ==
    [ stream       : RespondStreams,
      default_file : RespondDefaultFiles,
      err404_file  : Err404Files,
      read_fetch   : RespondReadResults,
      read_err404  : RespondReadResults ]

RespondInit ==
    /\ Parked
    /\ args \in RespondInputs
    /\ ret = <<>>
    /\ pcall = "ready"

RespondCall ==
    /\ pcall = "ready"
    /\ ret' = respond_http_request(args.stream, args.default_file, args.err404_file,
                                   args.read_fetch, args.read_err404)
    /\ pcall' = "returned"
    /\ UNCHANGED <<serverVars, args>>

SpecRespond == RespondInit /\ [][RespondCall]_vars

\* The connection whose request line parsed and whose target resolved.
Resolved ==
    /\ pcall = "returned"
    /\ parse_tcp_stream(args.stream).ok
    /\ match_fetch(parse_tcp_stream(args.stream), args.default_file).ok

ResolvedPath == match_fetch(parse_tcp_stream(args.stream), args.default_file).path

\* C17: a resolved path whose third character is '_' is answered with a 403
\* without body and without any file read, and the check never panics, as
\* every resolved path has at least three characters.
C17_InternalCheckNeverPanics ==
    Resolved =>
        /\ Len(ResolvedPath) >= 3
        /\ ~ret.panicked
        /\ ResolvedPath[3] = "_" =>
              /\ ret.responses = <<[code |-> "Forbbiden403", content |-> {},
                                    content_length |-> {}]>>
              /\ ret.reads = <<>>

\* What the handler answers when the resolved path is read.
ReadServed ==
    /\ Resolved
    /\ Len(ResolvedPath) >= 3
    /\ ResolvedPath[3] # "_"

\* C18: a failed read of the resolved path is answered 404, without body
\* when err404_file is unset or unreadable, with the fallback file's content
\* and its length when it is set and readable, and the handler completes; a
\* successful read is answered 200 with the content and its length.
C18_ReadOutcomeDecidesResponse ==
    ReadServed =>
        /\ ~ret.panicked
        /\ Len(ret.responses) = 1
        /\ LET response == ret.responses[1]
           IN  IF args.read_fetch.ok
               THEN /\ response.code = "OK200"
                    /\ response.content = {args.read_fetch.v}
                    /\ response.content_length = {Len(args.read_fetch.v)}
               ELSE /\ response.code = "NotFound404"
                    /\ IF args.err404_file # {} /\ args.read_err404.ok
                       THEN /\ response.content = {args.read_err404.v}
                            /\ response.content_length = {Len(args.read_err404.v)}
                       ELSE /\ response.content = {}
                            /\ response.content_length = {}

C18_Witness ==
    /\ ReadServed
    /\ ~args.read_fetch.ok
    /\ args.err404_file # {}
    /\ ~args.read_err404.ok
    /\ ret.written = <<HttpResponse_to_string(HttpResponse("NotFound404", None, None))>>

\* C19: every response the handler writes has a content length exactly when
\* it has content, and the length is the content's.
C19_ContentLengthMatchesContent ==
    pcall = "returned" =>
        \A i \in 1..Len(ret.responses) :
            LET response == ret.responses[i]
            IN  /\ (response.content_length = {}) <=> (response.content = {})
                /\ \A content \in response.content :
                       response.content_length = {Len(content)}

C19_Witness ==
    /\ pcall = "returned"
    /\ ret.responses = <<[code |-> "ImATeapot418", content |-> {TeapotContent},
                          content_length |-> {286}]>>

(***************************************************************************)
(* The wait of serve for a free handler slot.                              *)
(***************************************************************************)
\* Handlers that were spawned and have not yet released their slot.
Unreleased == {h \in Conns : hpc[h] \in {"respond", "dec_load", "dec_store"}}

\* C20: while M handlers are in flight the control thread, waiting to admit
\* the next connection, is blocked: once it has found the counter at M it
\* does not read it again until a handler releases.
C20_WaitingThreadIsBlocked ==
    \A M \in config.max_threads :
        (M > 0 /\ ctl = "wait" /\ Cardinality(Unreleased) = M) => gate_reads <= 1

(***************************************************************************)
(* The thread limit a command line can configure.                          *)
(***************************************************************************)
\* C24: build_from_cmdline returns no config with max_threads = Some(0); a
\* command line that gives --max-threads or -t the value 0 gets Err.
C24_NoZeroMaxThreads ==
    pcall = "returned" =>
        /\ ret.ok => 0 \notin ret.config.max_threads
        /\ (\E i \in 1..Len(args.pairs) :
               /\ FieldOf(args.pairs[i][1]) = "max_threads"
               /\ args.pairs[i][2] = <<"0">>) => ~ret.ok

C24_Witness ==
    /\ pcall = "returned"
    /\ args.pairs = << <<<<"-", "t">>, <<"0">> >> >>
    /\ args.last = <<>>
    /\ ~ret.ok
    /\ ret.msg = << <<"0">>, " is not integer greater then 0!" >>

(***************************************************************************)
(* respond_http_request applied to the same request under GET and HEAD.    *)
(***************************************************************************)
MethodTargets ==
    { <<"/">>,
      <<"/","a">>,
      <<"/","_","x">>,
      <<"/","/","c","o","f","f","e","e">>,
      <<"/",".",".">>,
      <<"/","a","/">>,
      <<"a">>,
      <<"_","x">>,
      <<"/","a","%","2","0","b">>,
      <<"/","a","/","b">> }

MethodInputs ==
    [ target       : MethodTargets,
      version      : {<<>>, <<" ","H","T","T","P","/","1",".","1">>},
      default_file : RespondDefaultFiles,
      err404_file  : Err404Files,
      read_fetch   : RespondReadResults,
      read_err404  : RespondReadResults ]

\* The connection that sends the request line of a for the method.
RequestOf(method, a) == <<IoOk(method \o <<" ">> \o a.target \o a.version)>>

MethodInit ==
    /\ Parked
    /\ args \in MethodInputs
    /\ ret = <<>>
    /\ pcall = "ready"

\* Two connections that differ in the method alone are handled, the files
\* being the same for both.
MethodPairCall ==
    /\ pcall = "ready"
    /\ ret' = [ get  |-> respond_http_request(RequestOf(GET, args), args.default_file,
                             args.err404_file, args.read_fetch, args.read_err404),
                head |-> respond_http_request(RequestOf(HEAD, args), args.default_file,
                             args.err404_file, args.read_fetch, args.read_err404) ]
    /\ pcall' = "returned"
    /\ UNCHANGED <<serverVars, args>>

SpecMethod == MethodInit /\ [][MethodPairCall]_vars

\* C23: what respond_http_request writes does not depend on the method: a
\* HEAD request gets the status, Content-Length and body a GET for the same
\* target gets, and the handler reads the same files for both.
C23_ResponseIgnoresMethod ==
    pcall = "returned" =>
        /\ ret.head.written = ret.get.written
        /\ ret.head.responses = ret.get.responses
        /\ ret.head.reads = ret.get.reads
        /\ ret.head.panicked = ret.get.panicked

C23_Witness ==
    /\ pcall = "returned"
    /\ args.target = <<"/", "a">>
    /\ args.read_fetch = IoOk(<<"o", "k">>)
    /\ ret.head.responses = <<[code |-> "OK200", content |-> {<<"o", "k">>},
                               content_length |-> {2}]>>
    /\ ret.get.written = ret.head.written
    /\ Len(ret.head.written) = 1

(***************************************************************************)
(* The thread counter once serve is over.                                  *)
(***************************************************************************)
\* Every handler thread that was spawned has ended.
HandlersEnded == \A h \in Conns : hpc[h] \in {"idle", "done", "panicked"}

\* C22: when serve has returned and every handler it spawned has finished,
\* THREAD_COUNT is back at 0, the value it had when serve was called.
C22_CounterBackAtStart ==
    (ctl = "returned" /\ HandlersEnded) => THREAD_COUNT = 0

(***************************************************************************)
(* The server under fair scheduling: the control thread takes a step when  *)
(* it can, a handler that is through respond_http_request goes on to       *)
(* release its slot, and every handler gets through respond_http_request   *)
(* as long as the process runs.  Clients are free to connect or not, and a *)
(* turn of the wait loop that finds the counter at max_threads leaves the  *)
(* state as it was.                                                        *)
(***************************************************************************)
ControlStep ==
    \/ BindOk
    \/ BindErr
    \/ IncomingCall
    \/ Accept
    \/ AcceptErr
    \/ ServeMatch
    \/ WaitGate
    \/ IncLoad
    \/ IncStore
    \/ Spawn
    \/ SpawnErr
    \/ MainExit

ReleaseStep(h) == DecLoad(h) \/ DecStore(h)

HandlersFinish == \A h \in Conns : []<>(hpc[h] # "respond" \/ exited # None)

FairSpec ==
    /\ Spec
    /\ WF_vars(ControlStep)
    /\ \A h \in Conns : WF_vars(ReleaseStep(h))
    /\ HandlersFinish

\* C21: with max_threads = M >= 1 and every handler finishing, the wait loop
\* of serve always exits while the process runs: the control thread never
\* stays in it forever.
C21_WaitLoopExits ==
    \A M \in 1..MaxThreads :
        (config.max_threads = Some(M) /\ ctl = "wait")
            ~> (ctl # "wait" \/ exited # None)

====
